---- MODULE Spec2Model ----
(***************************************************************************)
(* Model of api/coc-proxy.js: the serverless handler that proxies a        *)
(* player lookup to the Clash of Clans API.                                *)
(*                                                                         *)
(* Strings that the handler inspects character by character (the player    *)
(* tag) are sequences of code points, so that decodeURIComponent, trim,    *)
(* toUpperCase, startsWith/slice and the regular expression are computed   *)
(* the way the runtime computes them.  Messages and header names are       *)
(* TLA+ strings.                                                           *)
(***************************************************************************)
EXTENDS Integers, Sequences, FiniteSets, TLC

VARIABLES
    pc,         \* position of the invocation: idle, entry, gate, awaiting, settled, done
    req,        \* the inbound request: method and query.playerTag
    env,        \* process.env.COC_API_KEY and whether the runtime has AbortSignal.timeout
    res,        \* the response object: headers, status, body, number of sends
    calls,      \* outbound fetch calls issued so far, oldest first
    upstream,   \* whether the upstream ever settles the call in flight
    fetched,    \* how the awaited fetch settled
    caught      \* the error bound by the outer catch block

vars == <<pc, req, env, res, calls, upstream, fetched, caught>>

(***************************************************************************)
(* Bounds of the model                                                     *)
(***************************************************************************)
\* longest player tag string, in characters
MaxLen == 3
\* longest multi-value list for the query parameter
MaxArr == 2

\* the characters an inbound tag string is built from:
\*   '%' '#' ' ' '0' '2' '5' 'a' 'p'
InputChars == {37, 35, 32, 48, 50, 53, 97, 112}

RECURSIVE SeqsUpTo(_, _)
SeqsUpTo(S, n) ==
    IF n = 0 THEN {<<>>}
    ELSE LET shorter == SeqsUpTo(S, n - 1)
         IN  shorter \cup {Append(s, c) : s \in {t \in shorter : Len(t) = n - 1}, c \in S}

(***************************************************************************)
(* JavaScript values of req.query.playerTag                                *)
(***************************************************************************)
Undefined == [t |-> "undefined"]
Null      == [t |-> "null"]
Num(n)    == [t |-> "number", n |-> n]
Str(s)    == [t |-> "string", s |-> s]
Arr(xs)   == [t |-> "array", items |-> xs]

\* !v
Falsy(v) ==
    \/ v.t \in {"undefined", "null"}
    \/ v.t = "number" /\ v.n = 0
    \/ v.t = "string" /\ v.s = <<>>

\* typeof v === 'string'
IsString(v) == v.t = "string"

\* faulty variant of PlayerTagValue: the last element of a list stands for it
PlayerTagValueLast(playerTag) ==
    IF playerTag.t = "array"
    THEN IF Len(playerTag.items) = 0 THEN Undefined
         ELSE playerTag.items[Len(playerTag.items)]
    ELSE playerTag

\* Array.isArray(playerTag) ? playerTag[0] : playerTag
PlayerTagValue(playerTag) ==
    IF playerTag.t = "array"
    THEN IF Len(playerTag.items) = 0 THEN Undefined ELSE playerTag.items[1]
    ELSE playerTag

(***************************************************************************)
(* decodeURIComponent(playerTagValue).trim().toUpperCase()                 *)
(***************************************************************************)
\* value of a hexadecimal digit, -1 for any other character
HexVal(c) ==
    IF c \in 48..57 THEN c - 48
    ELSE IF c \in 65..70 THEN c - 55
    ELSE IF c \in 97..102 THEN c - 87
    ELSE 0 - 1

\* s holds a complete escape %XX at position i
EscapeAt(s, i) ==
    /\ i + 2 <= Len(s)
    /\ s[i] = 37
    /\ HexVal(s[i + 1]) >= 0
    /\ HexVal(s[i + 2]) >= 0

\* the octet the escape at position i denotes
ByteAt(s, i) == 16 * HexVal(s[i + 1]) + HexVal(s[i + 2])

\* number of octets of the UTF-8 sequence a lead octet opens, 0 for no lead
Utf8Len(b) ==
    IF b < 128 THEN 1
    ELSE IF b \in 194..223 THEN 2
    ELSE IF b \in 224..239 THEN 3
    ELSE IF b \in 240..244 THEN 4
    ELSE 0

\* the escapes following the lead at position i are n - 1 continuation octets
ContinuationsAt(s, i, n) ==
    \A k \in 1..(n - 1) :
        /\ EscapeAt(s, i + 3 * k)
        /\ ByteAt(s, i + 3 * k) \in 128..191

Cont(s, i, k) == ByteAt(s, i + 3 * k) - 128

\* the code point of the n-octet sequence at position i
CodePointAt(s, i, n) ==
    IF n = 2 THEN (ByteAt(s, i) - 192) * 64 + Cont(s, i, 1)
    ELSE IF n = 3 THEN (ByteAt(s, i) - 224) * 4096 + Cont(s, i, 1) * 64 + Cont(s, i, 2)
    ELSE (ByteAt(s, i) - 240) * 262144 + Cont(s, i, 1) * 4096
             + Cont(s, i, 2) * 64 + Cont(s, i, 3)

\* not overlong, not a surrogate, inside the Unicode range
WellFormed(cp, n) ==
    IF n = 2 THEN cp >= 128
    ELSE IF n = 3 THEN cp >= 2048 /\ cp \notin 55296..57343
    ELSE cp \in 65536..1114111

URIError == [ok |-> FALSE, str |-> <<>>]

Cons(c, r) == IF r.ok THEN [ok |-> TRUE, str |-> <<c>> \o r.str] ELSE r

RECURSIVE DecodeFrom(_, _)
DecodeFrom(s, i) ==
    IF i > Len(s) THEN [ok |-> TRUE, str |-> <<>>]
    ELSE IF s[i] # 37 THEN Cons(s[i], DecodeFrom(s, i + 1))
    ELSE IF ~EscapeAt(s, i) THEN URIError
    ELSE LET n == Utf8Len(ByteAt(s, i))
         IN  IF n = 0 THEN URIError
             ELSE IF n = 1 THEN Cons(ByteAt(s, i), DecodeFrom(s, i + 3))
             ELSE IF ~ContinuationsAt(s, i, n) THEN URIError
             ELSE IF ~WellFormed(CodePointAt(s, i, n), n) THEN URIError
             ELSE Cons(CodePointAt(s, i, n), DecodeFrom(s, i + 3 * n))

\* decodeURIComponent: the decoded string, or ok = FALSE where it throws
\* URIError
DecodeURIComponent(s) == DecodeFrom(s, 1)

\* WhiteSpace and LineTerminator code points, the ones trim removes
WhiteSpace ==
    {9, 10, 11, 12, 13, 32, 160, 5760, 8232, 8233, 8239, 8287, 12288, 65279}
        \cup (8192..8202)

RECURSIVE TrimStart(_)
TrimStart(s) ==
    IF s # <<>> /\ Head(s) \in WhiteSpace THEN TrimStart(Tail(s)) ELSE s

RECURSIVE TrimEnd(_)
TrimEnd(s) ==
    IF s # <<>> /\ s[Len(s)] \in WhiteSpace
    THEN TrimEnd(SubSeq(s, 1, Len(s) - 1))
    ELSE s

Trim(s) == TrimEnd(TrimStart(s))

\* toUpperCase on the characters a decoded tag of this model can hold
\* (a-z map to A-Z; every other character reached here maps to itself)
ToUpperCase(s) == [i \in 1..Len(s) |-> IF s[i] \in 97..122 THEN s[i] - 32 ELSE s[i]]

\* normalizedTag.startsWith('#') ? normalizedTag.slice(1) : normalizedTag
RawTag(normalizedTag) ==
    IF normalizedTag # <<>> /\ Head(normalizedTag) = 35
    THEN Tail(normalizedTag)
    ELSE normalizedTag

\* the characters 0289PYLQGRJCUV
TagAlphabet == {48, 50, 56, 57, 80, 89, 76, 81, 71, 82, 74, 67, 85, 86}

\* faulty variant of TagPattern: * for +, the empty string matches
TagPatternStar(rawTag) == \A i \in 1..Len(rawTag) : rawTag[i] \in TagAlphabet

\* faulty variant of TagPattern: any non-empty string matches
TagPatternAny(rawTag) == Len(rawTag) >= 1

\* /^[0289PYLQGRJCUV]+$/.test(rawTag)
TagPattern(rawTag) ==
    /\ Len(rawTag) >= 1
    /\ \A i \in 1..Len(rawTag) : rawTag[i] \in TagAlphabet

\* `%23${rawTag}`
FormattedTag(rawTag) == <<37, 50, 51>> \o rawTag

(***************************************************************************)
(* The environment: methods, credentials, query values, upstream replies   *)
(***************************************************************************)
Methods == {"GET", "OPTIONS", "POST", "DELETE"}

\* process.env.COC_API_KEY: unset, empty, or one of two credentials
ApiKeys ==
    {[defined |-> FALSE, value |-> ""],
     [defined |-> TRUE, value |-> ""],
     [defined |-> TRUE, value |-> "key-A"],
     [defined |-> TRUE, value |-> "key-B"]}

TagStrings == SeqsUpTo(InputChars, MaxLen)

\* what a multi-value query parameter may hold:
\*   undefined, null, 0, 7, "", "p", "#2", "5"
ListItems ==
    {Undefined, Null, Num(0), Num(7),
     Str(<<>>), Str(<<112>>), Str(<<35, 50>>), Str(<<53>>)}

QueryValues ==
    {Undefined, Null, Num(0), Num(7)}
        \cup {Str(s) : s \in TagStrings}
        \cup {Arr(xs) : xs \in SeqsUpTo(ListItems, MaxArr)}

\* statuses the upstream answers with
UpstreamStatuses == {200, 201, 400, 403, 404, 429, 500, 503}

\* the body of an upstream answer: text that is no JSON, or a JSON value
NotJson     == [parses |-> FALSE, type |-> "none", hasReason |-> FALSE, reason |-> "",
                hasName |-> FALSE, name |-> ""]
JsonNull    == [parses |-> TRUE, type |-> "null", hasReason |-> FALSE, reason |-> "",
                hasName |-> FALSE, name |-> ""]
JsonNumber  == [parses |-> TRUE, type |-> "number", hasReason |-> FALSE, reason |-> "",
                hasName |-> FALSE, name |-> ""]
JsonObject(hasReason, reason, hasName, name) ==
    [parses |-> TRUE, type |-> "object", hasReason |-> hasReason, reason |-> reason,
     hasName |-> hasName, name |-> name]

Reasons == {"accessDenied.invalidIp", "accessDenied", "notFound", ""}

UpstreamBodies ==
    {NotJson, JsonNull, JsonNumber,
     JsonObject(FALSE, "", FALSE, ""),
     JsonObject(FALSE, "", TRUE, "Alice")}
        \cup {JsonObject(TRUE, r, FALSE, "") : r \in Reasons}

(***************************************************************************)
(* The response object                                                     *)
(***************************************************************************)
NoBody == [kind |-> "none"]

FreshResponse == [headers |-> {}, status |-> 0, body |-> NoBody, sent |-> 0]

\* faulty variant of CorsHeaders: Access-Control-Allow-Origin is not set
CorsHeadersNoOrigin ==
    {<<"Access-Control-Allow-Credentials", "true">>,
     <<"Access-Control-Allow-Methods", "GET,OPTIONS,PATCH,DELETE,POST,PUT">>,
     <<"Access-Control-Allow-Headers",
       "X-CSRF-Token, X-Requested-With, Accept, Accept-Version, Content-Length, Content-MD5, Content-Type, Date, X-Api-Version">>}

\* the four res.setHeader calls
CorsHeaders ==
    {<<"Access-Control-Allow-Credentials", "true">>,
     <<"Access-Control-Allow-Origin", "*">>,
     <<"Access-Control-Allow-Methods", "GET,OPTIONS,PATCH,DELETE,POST,PUT">>,
     <<"Access-Control-Allow-Headers",
       "X-CSRF-Token, X-Requested-With, Accept, Accept-Version, Content-Length, Content-MD5, Content-Type, Date, X-Api-Version">>}

\* res.setHeader(name, value): replaces any earlier value of the header
SetHeaders(headers, new) ==
    {h \in headers : \A n \in new : n[1] # h[1]} \cup new

\* res.status(status).end()
End(r, status) ==
    [r EXCEPT !.status = status, !.body = [kind |-> "empty"], !.sent = @ + 1]

\* res.status(status).json(body)
Json(r, status, body) ==
    [r EXCEPT !.status = status, !.body = body, !.sent = @ + 1]

\* { message, error: true }
ErrorBody(message) == [kind |-> "json", message |-> message, error |-> TRUE]

\* { message, error: true, status, details }
UpstreamErrorBody(message, status, details) ==
    [kind |-> "json", message |-> message, error |-> TRUE,
     status |-> status, details |-> details]

\* { message, error: true, details }
FailureBody(message, details) ==
    [kind |-> "json", message |-> message, error |-> TRUE, details |-> details]

\* { data, success: true, timestamp: new Date().toISOString() }
SuccessBody(data) ==
    [kind |-> "json", data |-> data, success |-> TRUE, timestamp |-> "ISO-8601"]

(***************************************************************************)
(* The synchronous part of the handler, up to the fetch                    *)
(***************************************************************************)
\* req.method === 'OPTIONS'
IsPreflight(method) == method = "OPTIONS"

\* faulty variant of MethodRejected: POST passes the gate
MethodRejectedExceptPost(method) == method \notin {"GET", "POST"}

\* req.method !== 'GET'
MethodRejected(method) == method # "GET"

\* !playerTagValue || typeof playerTagValue !== 'string'
TagMissing(playerTagValue) == Falsy(playerTagValue) \/ ~IsString(playerTagValue)

\* faulty variant of ApiKeyMissing: only an unset variable counts as missing
ApiKeyMissingOnlyUnset(apiKey) == ~apiKey.defined

\* !apiKey
ApiKeyMissing(apiKey) == ~apiKey.defined \/ apiKey.value = ""

\* the outcome of lines 49-65 for a string: the raw tag, or valid = FALSE where
\* the handler answers "Invalid player tag format"
Normalized(playerTagValue) ==
    LET decoded == DecodeURIComponent(playerTagValue)
        rawTag  == RawTag(ToUpperCase(Trim(decoded.str)))
    IN  IF ~decoded.ok THEN [valid |-> FALSE, rawTag |-> <<>>]
        ELSE IF ~TagPattern(rawTag) THEN [valid |-> FALSE, rawTag |-> <<>>]
        ELSE [valid |-> TRUE, rawTag |-> rawTag]

\* AbortSignal.timeout(10000)
TimeoutMs == 10000

\* faulty variant of RequestOptions: the signal is never set
RequestOptionsNoSignal(apiKey, hasAbortTimeout) ==
    [authorization |-> <<"Bearer", apiKey.value>>,
     accept        |-> "application/json",
     contentType   |-> "application/json",
     signal        |-> 0]

\* requestOptions, with the signal where the runtime has AbortSignal.timeout
\* (signal 0: none)
RequestOptions(apiKey, hasAbortTimeout) ==
    [authorization |-> <<"Bearer", apiKey.value>>,
     accept        |-> "application/json",
     contentType   |-> "application/json",
     signal        |-> IF hasAbortTimeout THEN TimeoutMs ELSE 0]

\* fetch(`https://api.clashofclans.com/v1/players/${formattedTag}`, requestOptions)
FetchCall(rawTag, apiKey, hasAbortTimeout) ==
    [base    |-> "https://api.clashofclans.com/v1/players/",
     tag     |-> FormattedTag(rawTag),
     options |-> RequestOptions(apiKey, hasAbortTimeout)]

NoFetch == [kind |-> "none"]
NoError == [name |-> "", message |-> "", cause |-> "none"]

\* a request arrives and the platform invokes the handler with a fresh res
Receive(playerTags) ==
    /\ pc = "idle"
    /\ \E method \in Methods, playerTag \in playerTags, apiKey \in ApiKeys,
          hasAbortTimeout \in BOOLEAN :
          /\ req' = [method |-> method, query |-> [playerTag |-> playerTag]]
          /\ env' = [COC_API_KEY |-> apiKey, hasAbortTimeout |-> hasAbortTimeout]
    /\ res' = FreshResponse
    /\ pc' = "entry"
    /\ UNCHANGED <<calls, upstream, fetched, caught>>

Invoke == Receive(QueryValues)

\* the same with the identifier drawn from a sample of the query values:
\*   omitted, [], ["", "p"], "p", "#2", "%50", " 0 ", "5", "%a0", "#"
SampledQueryValues ==
    {Undefined, Arr(<<>>), Arr(<<Str(<<>>), Str(<<112>>)>>),
     Str(<<112>>), Str(<<35, 50>>), Str(<<37, 53, 48>>), Str(<<32, 48, 32>>),
     Str(<<53>>), Str(<<37, 97, 48>>), Str(<<35>>)}

InvokeSampled == Receive(SampledQueryValues)

\* lines 3-9
SetCorsHeaders ==
    /\ pc = "entry"
    /\ res' = [res EXCEPT !.headers = SetHeaders(@, CorsHeaders)]
    /\ pc' = "gate"
    /\ UNCHANGED <<req, env, calls, upstream, fetched, caught>>

Reply(r) ==
    /\ res' = r
    /\ pc' = "done"
    /\ UNCHANGED <<req, env, calls, upstream, fetched, caught>>

\* lines 11-87: the gates in the order the handler applies them, then the fetch
Validate ==
    /\ pc = "gate"
    /\ LET playerTagValue == PlayerTagValue(req.query.playerTag)
           apiKey         == env.COC_API_KEY
       IN  IF IsPreflight(req.method) THEN Reply(End(res, 200))
           ELSE IF MethodRejected(req.method)
               THEN Reply(Json(res, 405, ErrorBody("Method not allowed")))
           ELSE IF TagMissing(playerTagValue)
               THEN Reply(Json(res, 400, ErrorBody("Player tag is required")))
           ELSE IF ApiKeyMissing(apiKey)
               THEN Reply(Json(res, 500,
                        ErrorBody("Server configuration error: API key not configured")))
           ELSE IF ~Normalized(playerTagValue.s).valid
               THEN Reply(Json(res, 400, ErrorBody("Invalid player tag format")))
           ELSE \E answers \in {"answers", "silent"} :
                   /\ calls' = Append(calls,
                                  FetchCall(Normalized(playerTagValue.s).rawTag,
                                            apiKey, env.hasAbortTimeout))
                   /\ upstream' = answers
                   /\ pc' = "awaiting"
                   /\ UNCHANGED <<req, env, res, fetched, caught>>

(***************************************************************************)
(* The awaited fetch settles                                               *)
(***************************************************************************)
\* the upstream answers with a status and a body
UpstreamResponds ==
    /\ pc = "awaiting"
    /\ upstream = "answers"
    /\ \E status \in UpstreamStatuses, body \in UpstreamBodies :
          fetched' = [kind |-> "response", status |-> status, body |-> body]
    /\ pc' = "settled"
    /\ UNCHANGED <<req, env, res, calls, upstream, caught>>

\* the connection fails: fetch rejects with TypeError("fetch failed")
FetchFails ==
    /\ pc = "awaiting"
    /\ upstream = "answers"
    /\ fetched' = [kind |-> "rejected",
                   error |-> [name |-> "TypeError", message |-> "fetch failed",
                              cause |-> "network"]]
    /\ pc' = "settled"
    /\ UNCHANGED <<req, env, res, calls, upstream, caught>>

\* the names a fetch aborted by AbortSignal.timeout rejects with: the signal's
\* reason, a DOMException named TimeoutError, where fetch passes the reason
\* on, and AbortError where fetch raises its own abort error
TimeoutErrorNames == {"TimeoutError", "AbortError"}

\* the deadline of the call's signal expires before the upstream has answered
SignalTimeout ==
    /\ pc = "awaiting"
    /\ calls[Len(calls)].options.signal = TimeoutMs
    /\ \E name \in TimeoutErrorNames :
          fetched' = [kind |-> "rejected",
                      error |-> [name |-> name,
                                 message |-> "The operation was aborted due to timeout",
                                 cause |-> "timeout"]]
    /\ pc' = "settled"
    /\ UNCHANGED <<req, env, res, calls, upstream, caught>>

(***************************************************************************)
(* The rest of the handler, from the settled fetch to the response         *)
(***************************************************************************)
\* response.ok
Ok(status) == status \in 200..299

\* errorData.reason || 'Unknown error'
ErrorReason(errorData) ==
    IF errorData.hasReason /\ errorData.reason # "" THEN errorData.reason
    ELSE "Unknown error"

\* lines 95-107
UpstreamErrorMessage(status, errorReason) ==
    IF status = 503 THEN "Service temporarily unavailable"
    ELSE IF status = 429 THEN "Too many requests, please try again later"
    ELSE IF status = 404 THEN "Player not found"
    ELSE IF status = 403 THEN
        IF errorReason = "accessDenied.invalidIp"
            THEN "API key IP is not whitelisted for Clash of Clans API"
        ELSE IF errorReason = "accessDenied"
            THEN "API access denied. Check your Clash API key permissions"
        ELSE "Invalid API key or access denied"
    ELSE "Failed to fetch player data"

\* lines 130-132
CatchMessage(error) ==
    IF error.name = "TypeError" THEN "Network error"
    ELSE IF error.name = "AbortError" THEN "Request timeout"
    ELSE "Internal server error"

\* what the try block does with the settled fetch: the response it sends, or
\* the error it throws
TryBlock(f) ==
    IF f.kind = "rejected" THEN [throws |-> TRUE, error |-> f.error]
    ELSE IF ~Ok(f.status) THEN
        \* response.json().catch(() => ({}))
        LET errorData == IF f.body.parses THEN f.body
                         ELSE JsonObject(FALSE, "", FALSE, "")
        IN  IF errorData.type = "null"
            THEN [throws |-> TRUE,
                  error |-> [name |-> "TypeError",
                             message |-> "Cannot read properties of null (reading 'reason')",
                             cause |-> "handling"]]
            ELSE [throws |-> FALSE, status |-> f.status,
                  body |-> UpstreamErrorBody(
                               UpstreamErrorMessage(f.status, ErrorReason(errorData)),
                               f.status, ErrorReason(errorData))]
    ELSE IF ~f.body.parses
        THEN [throws |-> TRUE,
              error |-> [name |-> "SyntaxError",
                         message |-> "Unexpected token in JSON",
                         cause |-> "handling"]]
    ELSE IF f.body.type = "null"
        \* console.log(`... ${data.name} (${data.tag})`)
        THEN [throws |-> TRUE,
              error |-> [name |-> "TypeError",
                         message |-> "Cannot read properties of null (reading 'name')",
                         cause |-> "handling"]]
    ELSE [throws |-> FALSE, status |-> 200, body |-> SuccessBody(f.body)]

\* lines 89-139
HandleResult ==
    /\ pc = "settled"
    /\ LET out == TryBlock(fetched)
       IN  IF out.throws
           THEN /\ caught' = out.error
                /\ res' = Json(res, 500,
                            FailureBody(CatchMessage(out.error), out.error.message))
           ELSE /\ caught' = caught
                /\ res' = Json(res, out.status, out.body)
    /\ pc' = "done"
    /\ UNCHANGED <<req, env, calls, upstream, fetched>>

(***************************************************************************)
(* Specification                                                           *)
(***************************************************************************)
Init ==
    /\ pc = "idle"
    /\ req = [method |-> "GET", query |-> [playerTag |-> Undefined]]
    /\ env = [COC_API_KEY |-> [defined |-> FALSE, value |-> ""], hasAbortTimeout |-> FALSE]
    /\ res = FreshResponse
    /\ calls = <<>>
    /\ upstream = "unknown"
    /\ fetched = NoFetch
    /\ caught = NoError

Next ==
    \/ Invoke
    \/ SetCorsHeaders
    \/ Validate
    \/ UpstreamResponds
    \/ FetchFails
    \/ SignalTimeout
    \/ HandleResult

Spec == Init /\ [][Next]_vars

\* The handler's synchronous code runs to completion, a signal's timer fires,
\* and an upstream that answers does answer.
\* the steps of an invocation under way
Progress ==
    \/ SetCorsHeaders
    \/ Validate
    \/ UpstreamResponds
    \/ FetchFails
    \/ SignalTimeout
    \/ HandleResult

NextSampled ==
    \/ InvokeSampled
    \/ SetCorsHeaders
    \/ Validate
    \/ UpstreamResponds
    \/ FetchFails
    \/ SignalTimeout
    \/ HandleResult

\* The handler's synchronous code runs to completion, the timer of a signal
\* fires, and an upstream that answers does answer; whether a request ever
\* arrives is left open.  At every position of an invocation the enabled
\* steps all move it forward, so weak fairness of their disjunction is the
\* fairness of each.  The identifiers are the sampled ones: the behaviours
\* of the upstream, the runtime and the credential are all kept.
FairSpec == Init /\ [][NextSampled]_vars /\ WF_vars(Progress)

(***************************************************************************)
(* Vocabulary of the properties, stated independently of the handler's     *)
(* own gates                                                               *)
(***************************************************************************)
\* an invocation is under way or has ended
Invoked == pc # "idle"

\* the value that stands for the identifier: the first element of a list
Identifier ==
    LET q == req.query.playerTag
    IN  IF q.t = "array"
        THEN IF q.items = <<>> THEN Undefined ELSE q.items[1]
        ELSE q

\* omitted, null, the empty string, or not a string
IdentifierAbsent ==
    \/ Identifier.t # "string"
    \/ Identifier.s = <<>>

\* the identifier grammar: it decodes, and trimmed, upper-cased and with one
\* leading '#' stripped it is a non-empty string over the tag alphabet
MatchesGrammar(s) ==
    /\ DecodeURIComponent(s).ok
    /\ LET n == ToUpperCase(Trim(DecodeURIComponent(s).str))
           r == IF n # <<>> /\ n[1] = 35 THEN SubSeq(n, 2, Len(n)) ELSE n
       IN  /\ r # <<>>
           /\ \A i \in 1..Len(r) :
                 r[i] \in {48, 50, 56, 57, 80, 89, 76, 81, 71, 82, 74, 67, 85, 86}

IdentifierInvalid == ~IdentifierAbsent /\ ~MatchesGrammar(Identifier.s)
IdentifierValid   == ~IdentifierAbsent /\ MatchesGrammar(Identifier.s)

CredentialSet == env.COC_API_KEY.defined /\ env.COC_API_KEY.value # ""

Responded(status, body) ==
    pc = "done" /\ res.sent = 1 /\ res.status = status /\ res.body = body

InvalidFormatBody == [kind |-> "json", message |-> "Invalid player tag format", error |-> TRUE]
TagRequiredBody   == [kind |-> "json", message |-> "Player tag is required", error |-> TRUE]
NotAllowedBody    == [kind |-> "json", message |-> "Method not allowed", error |-> TRUE]
NotConfiguredBody ==
    [kind |-> "json", message |-> "Server configuration error: API key not configured",
     error |-> TRUE]

\* C1 as stated: a GET request whose identifier is a non-empty string that
\* fails percent-decoding or does not match the tag grammar is answered 400
\* "Invalid player tag format" and makes no outbound call, whether the
\* credential is set or not.
C1_InvalidTagAlways400 ==
    (Invoked /\ req.method = "GET" /\ IdentifierInvalid)
        => /\ calls = <<>>
           /\ pc = "done" => Responded(400, InvalidFormatBody)

\* C1 as amended: such a request makes no outbound call; it is answered 400
\* "Invalid player tag format" when the credential is set, and 500 "Server
\* configuration error: API key not configured" when the credential is unset
\* or empty, because the credential check comes before normalization.
C1_InvalidTagRejected ==
    (Invoked /\ req.method = "GET" /\ IdentifierInvalid)
        => /\ calls = <<>>
           /\ pc = "done" =>
                 IF CredentialSet THEN Responded(400, InvalidFormatBody)
                 ELSE Responded(500, NotConfiguredBody)

\* an identifier that fails percent-decoding was rejected with the credential set
C1_Witness ==
    /\ pc = "done"
    /\ req.method = "GET"
    /\ IdentifierInvalid
    /\ ~DecodeURIComponent(Identifier.s).ok
    /\ CredentialSet
    /\ res.status = 400

\* C2: with the credential unset or empty, every well-formed GET request
\* (identifier present and valid) is answered 500 "Server configuration
\* error: API key not configured", and no outbound call is made.
C2_MissingCredential500 ==
    (Invoked /\ req.method = "GET" /\ IdentifierValid /\ ~CredentialSet)
        => /\ calls = <<>>
           /\ pc = "done" => Responded(500, NotConfiguredBody)

\* a valid identifier met an empty credential
C2_Witness ==
    /\ pc = "done"
    /\ req.method = "GET"
    /\ IdentifierValid
    /\ env.COC_API_KEY.defined
    /\ env.COC_API_KEY.value = ""
    /\ res.status = 500

\* C3 as stated: every 2xx upstream response whose body parses as JSON, the
\* value null included, is answered 200 with the parsed value under data,
\* success: true and a timestamp.
C3_ParsedBodyReturned ==
    (pc = "done" /\ fetched.kind = "response" /\ fetched.status \in 200..299
        /\ fetched.body.parses)
        => Responded(200, [kind |-> "json", data |-> fetched.body, success |-> TRUE,
                           timestamp |-> "ISO-8601"])

\* the message C4 gives a failure of each kind
ClassifiedMessage(cause) ==
    IF cause = "timeout" THEN "Request timeout"
    ELSE IF cause = "network" THEN "Network error"
    ELSE "Internal server error"

\* C4 as stated: a failure raised during the upstream call or the handling of
\* its result is answered 500 with error: true and the failure description in
\* details, and the message is "Request timeout" exactly for a timeout,
\* "Network error" exactly for a network-level failure, and "Internal server
\* error" for every other failure.
C4_FailureClassified ==
    (pc = "done" /\ caught.cause # "none")
        => Responded(500, [kind |-> "json", message |-> ClassifiedMessage(caught.cause),
                           error |-> TRUE, details |-> caught.message])

\* the message C5 gives a status and a reason
MappedMessage(status, reason) ==
    CASE status = 403 /\ reason = "accessDenied.invalidIp" ->
            "API key IP is not whitelisted for Clash of Clans API"
      [] status = 403 /\ reason = "accessDenied" ->
            "API access denied. Check your Clash API key permissions"
      [] status = 403 /\ reason \notin {"accessDenied.invalidIp", "accessDenied"} ->
            "Invalid API key or access denied"
      [] status = 404 -> "Player not found"
      [] status = 429 -> "Too many requests, please try again later"
      [] status = 503 -> "Service temporarily unavailable"
      [] OTHER -> "Failed to fetch player data"

\* the reason an upstream body supplies, "Unknown error" when it does not
\* parse or holds none
SuppliedReason(body) ==
    IF body.parses /\ body.type = "object" /\ body.hasReason /\ body.reason # ""
    THEN body.reason
    ELSE "Unknown error"

\* C5 as stated: every non-2xx upstream response is answered with the upstream
\* status and the body {message, error: true, status, details}, details being
\* the reason or "Unknown error", and message the entry of the table for
\* (status, reason).
C5_UpstreamErrorMapped ==
    (pc = "done" /\ fetched.kind = "response" /\ fetched.status \notin 200..299)
        => Responded(fetched.status,
                     [kind |-> "json",
                      message |-> MappedMessage(fetched.status, SuppliedReason(fetched.body)),
                      error |-> TRUE,
                      status |-> fetched.status,
                      details |-> SuppliedReason(fetched.body)])

\* C6: an outbound call is made only in a GET invocation with a non-empty
\* credential and an identifier that passed validation; the path segment is
\* "%23" followed by a non-empty upper-case string without a leading '#' over
\* the tag alphabet, and the call carries Authorization: Bearer <credential>.
C6_OnlyValidTagsReachUpstream ==
    \A i \in 1..Len(calls) :
        /\ req.method = "GET"
        /\ CredentialSet
        /\ IdentifierValid
        /\ Len(calls[i].tag) > 3
        /\ SubSeq(calls[i].tag, 1, 3) = <<37, 50, 51>>
        /\ \A k \in 4..Len(calls[i].tag) :
              /\ calls[i].tag[k] \in {48, 50, 56, 57, 80, 89, 76, 81, 71, 82, 74, 67, 85, 86}
              /\ calls[i].tag[k] \notin 97..122
        /\ calls[i].tag[4] # 35
        /\ calls[i].options.authorization = <<"Bearer", env.COC_API_KEY.value>>

\* a percent-encoded, lower-case or padded identifier reached the upstream
C6_Witness ==
    /\ Len(calls) = 1
    /\ Identifier.s # SubSeq(calls[1].tag, 4, Len(calls[1].tag))
    /\ env.COC_API_KEY.value = "key-B"

\* C7: a GET request whose identifier is omitted, null, the empty string or
\* not a string (for a list: whose first element is, the empty list included)
\* is answered 400 "Player tag is required" and makes no outbound call,
\* whatever the credential; of a list only the first element counts: a later
\* element neither rescues a list whose first element is absent nor has a
\* list with a first string element rejected as missing.
C7_MissingTag400 ==
    /\ (Invoked /\ req.method = "GET" /\ IdentifierAbsent)
          => /\ calls = <<>>
             /\ pc = "done" => Responded(400, TagRequiredBody)
    /\ (pc = "done" /\ res.body = TagRequiredBody)
          => req.method = "GET" /\ IdentifierAbsent

\* a list whose first element is empty and whose second is a valid tag was
\* rejected with the credential set
C7_Witness ==
    /\ pc = "done"
    /\ req.method = "GET"
    /\ req.query.playerTag.t = "array"
    /\ Len(req.query.playerTag.items) = 2
    /\ req.query.playerTag.items[1] = Str(<<>>)
    /\ req.query.playerTag.items[2] = Str(<<112>>)
    /\ CredentialSet
    /\ res.status = 400

\* C8: OPTIONS is always answered 200 with an empty body, and every method
\* other than GET and OPTIONS 405 "Method not allowed", whatever the
\* identifier and the credential; neither makes an outbound call.
C8_MethodGateFirst ==
    (Invoked /\ req.method # "GET")
        => /\ calls = <<>>
           /\ pc \in {"entry", "gate", "done"}
           /\ pc = "done" =>
                 IF req.method = "OPTIONS" THEN Responded(200, [kind |-> "empty"])
                 ELSE Responded(405, NotAllowedBody)

\* a POST with a valid identifier and the credential set was refused
C8_Witness ==
    /\ pc = "done"
    /\ req.method = "POST"
    /\ IdentifierValid
    /\ CredentialSet
    /\ res.status = 405

\* the four headers C9 names
ExpectedCors ==
    {<<"Access-Control-Allow-Credentials", "true">>,
     <<"Access-Control-Allow-Origin", "*">>,
     <<"Access-Control-Allow-Methods", "GET,OPTIONS,PATCH,DELETE,POST,PUT">>,
     <<"Access-Control-Allow-Headers",
       "X-CSRF-Token, X-Requested-With, Accept, Accept-Version, Content-Length, Content-MD5, Content-Type, Date, X-Api-Version">>}

\* C9: every response, on every path, carries the four CORS headers; they are
\* set before the status is decided and are never removed.
C9_CorsOnEveryResponse ==
    (res.sent > 0 \/ res.status # 0 \/ pc \in {"gate", "awaiting", "settled", "done"})
        => ExpectedCors \subseteq res.headers

\* a transport failure was answered
C9_Witness ==
    /\ pc = "done"
    /\ res.status = 500
    /\ caught.cause = "network"
    /\ res.sent = 1

\* at most one outbound call and at most one response, and exactly one
\* response once the invocation has ended
OneCallOneResponse ==
    /\ Len(calls) <= 1
    /\ res.sent <= 1
    /\ pc = "done" => res.sent = 1

\* the call is in flight, the upstream never settles it and no deadline is set
Unanswered ==
    /\ pc = "awaiting"
    /\ upstream = "silent"
    /\ ~env.hasAbortTimeout

\* C10 as stated: every invocation eventually ends with exactly one response,
\* preceded by at most one outbound call, for every upstream behaviour, an
\* upstream that never answers included, with and without timeout support.
C10_AlwaysResponds ==
    /\ []OneCallOneResponse
    /\ []<>(pc \in {"idle", "done"})

\* C10 as amended: an invocation makes at most one outbound call and sends at
\* most one response; it ends with exactly one response whenever the upstream
\* settles the call or the runtime supports the 10-second timeout; against an
\* upstream that never answers, on a runtime without timeout support, the
\* call stays in flight and no response is sent.
C10_RespondsUnlessUnanswered ==
    /\ []OneCallOneResponse
    /\ []<>(pc \in {"idle", "done"} \/ Unanswered)
    /\ [](Unanswered => res.sent = 0)

\* the deadline ended a call the upstream never answered
C10_Witness ==
    /\ pc = "done"
    /\ upstream = "silent"
    /\ fetched.kind = "rejected"
    /\ fetched.error.cause = "timeout"
    /\ res.sent = 1


====
